---- MODULE Spec2Model ----
(***************************************************************************)
(* Weather MCP server (reports.py): the two synthetic data generators,     *)
(* get_weather_forecast and get_weather_warnings, and the three tools that *)
(* validate their arguments, call the generators and serialise the result. *)
(*                                                                         *)
(* Time is counted in whole hours since midnight of day 0; a value of      *)
(* datetime.now() is the current value of clock.  Every datetime.now() in  *)
(* the source is a separate read of clock, and the clock may advance       *)
(* between any two steps of the program.                                   *)
(*                                                                         *)
(* The event loop is single-threaded: running names the coroutine that     *)
(* holds the thread.  A generator body has no await in it, so once started *)
(* it runs to its return or raise before any other coroutine moves.        *)
(*                                                                         *)
(* Strings of the source are written in ASCII: "sunny" is the condition of *)
(* even offsets, "rain" of odd ones; the error texts are named by what     *)
(* they say.  A float literal x.y is the integer 10*x.y (temperature_x10). *)
(***************************************************************************)
EXTENDS Integers, Sequences, FiniteSets, TLC

\* ------------------------------------------------------------------ bounds
\* The clock stops advancing this many hours after the first midnight.
MaxPastMidnight == 0
\* Day counts a caller passes are drawn from 0..MaxDaysArg.
MaxDaysArg == 8
\* The calls a behaviour holds: each slot carries one tool call.
Calls == {1, 2}
\* The location arguments a caller passes ("" is the empty string).
Locations == {"", "Tokyo", "Osaka"}
\* The messages of the exceptions a generator body may raise.
FaultMsgs == {"fault_a", "fault_b"}

\* ------------------------------------------------------- program constants
HoursPerDay == 24
DaysPerWeek == 7
MinDays == 1
MaxDays == 7
HeavyRainHours == 12
StrongWindHours == 6
NumClockReads == 5
\* The default of the `days` parameter, used in place of the summary's 3.
DefaultDays == 5
SummaryDays == 3
\* A count left behind when the second warning was added.
TotalWarningsStale == 2 - 1
TotalWarnings == 2

VARIABLES clock, running, req, fc, wn

vars == <<clock, running, req, fc, wn>>

NoOne == <<>>

ForecastTool == "get_weather_forecast_tool"
WarningsTool == "get_weather_warnings_tool"
SummaryTool == "get_weather_summary_tool"

\* ------------------------------------------------------------- conversions
\* date.strftime("%Y-%m-%d"): the calendar day of a datetime.
StrfDate(t) == t \div HoursPerDay

\* date.strftime("%A"): the day of the week of a datetime.
StrfWeekday(t) == (t \div HoursPerDay) % DaysPerWeek

\* datetime.isoformat(): the calendar day and the time of day.
IsoFormat(t) == [day |-> t \div HoursPerDay, hour |-> t % HoursPerDay]

\* json.dumps(obj, ensure_ascii=False[, indent=2]) of a dict of str, int,
\* float, list and dict values: the text that encodes obj.
JsonDumps(obj, indent) == [json |-> obj, indent |-> indent]

\* What a tool call ends with: a returned text, or a raised exception.
Returned(text) == [kind |-> "return", text |-> text]
Raised(msg) == [kind |-> "raise", exc |-> msg]
NoResult == [kind |-> "none"]

\* ------------------------------------------------------ forecast generator
EmptyForecast(location, days) ==
  [location |-> location,
   forecast_days |-> days,
   current_weather |-> [temperature_x10 |-> 225, humidity |-> 65,
                        condition |-> "cloudy", wind_speed_x10 |-> 123,
                        wind_direction |-> "north-east"],
   daily_forecast |-> <<>>]

DailyData(i, date) ==
  [date |-> StrfDate(date),
   day_of_week |-> StrfWeekday(date),
   high_temp |-> 25 + i,
   low_temp |-> 15 + i,
   condition |-> IF i % 2 = 0 THEN "sunny" ELSE "rain",
   precipitation_chance |-> 20 + (i * 10),
   humidity |-> 60 + (i * 5),
   wind_speed |-> 10 + (i * 2)]

NoForecastFrame ==
  [pc |-> "none", location |-> "", days |-> 0, calledAt |-> 0, i |-> 0,
   sample_forecast |-> EmptyForecast("", 0), exc |-> ""]

\* The frame of get_weather_forecast(location, days) when its body starts.
ForecastFrame(location, days, calledAt) ==
  [pc |-> "loop", location |-> location, days |-> days,
   calledAt |-> calledAt, i |-> 0,
   sample_forecast |-> EmptyForecast(location, days), exc |-> ""]

\* ------------------------------------------------------ warnings generator
\* The dict literal of get_weather_warnings; reads are the values of its
\* five datetime.now() calls in evaluation order.
SampleWarnings(location, reads) ==
  [location |-> location,
   issued_at |-> IsoFormat(reads[1]),
   warnings |-> <<
     [type |-> "heavy_rain_warning",
      severity |-> "warning",
      description |-> "24h precipitation over 100mm expected",
      issued_time |-> IsoFormat(reads[2]),
      valid_until |-> IsoFormat(reads[3] + HeavyRainHours),
      affected_areas |-> << <<location, "south">>, <<location, "north">> >>],
     [type |-> "strong_wind_advisory",
      severity |-> "advisory",
      description |-> "winds up to 15m/s expected",
      issued_time |-> IsoFormat(reads[4]),
      valid_until |-> IsoFormat(reads[5] + StrongWindHours),
      affected_areas |-> << <<location, "all">> >>] >>,
   total_warnings |-> TotalWarnings]

NoWarnings == [location |-> "", total_warnings |-> 0, warnings |-> <<>>]

NoWarningsFrame ==
  [pc |-> "none", location |-> "", reads |-> <<>>,
   sample_warnings |-> NoWarnings, exc |-> ""]

WarningsFrame(location) ==
  [pc |-> "build", location |-> location, reads |-> <<>>,
   sample_warnings |-> NoWarnings, exc |-> ""]

Terminal(frame) == frame.pc \in {"returned", "raised"}

\* ------------------------------------------------------------------- tools
\* `if not location`: the empty string is the only falsy str.
ValidLocation(location) == location # ""

\* ValidDays with the lower bound off by one.
ValidDaysFromZero(days) == 0 <= days /\ days <= MaxDays

\* `1 <= days <= 7`
ValidDays(days) == MinDays <= days /\ days <= MaxDays

\* json.dumps({"error": msg}, ensure_ascii=False), returned by the tool.
ErrorPayload(msg) == Returned(JsonDumps([error |-> msg], 0))

\* ForecastToolOutcome without the `except`: the exception leaves the tool.
ForecastToolOutcomeNoExcept(frame) ==
  IF frame.pc = "raised"
  THEN Raised(frame.exc)
  ELSE Returned(JsonDumps(frame.sample_forecast, 2))

\* get_weather_forecast_tool from its `try`: the generator's record as text,
\* or the error payload made from the exception it raised.
ForecastToolOutcome(frame) ==
  IF frame.pc = "raised"
  THEN ErrorPayload(<<"forecast_failed", frame.exc>>)
  ELSE Returned(JsonDumps(frame.sample_forecast, 2))

\* get_weather_warnings_tool from its `try`.
WarningsToolOutcome(frame) ==
  IF frame.pc = "raised"
  THEN ErrorPayload(<<"warnings_failed", frame.exc>>)
  ELSE Returned(JsonDumps(frame.sample_warnings, 2))

\* GatherDone as a wait for the first task to complete.
GatherFirstCompleted(f, w) == Terminal(f) \/ Terminal(w)

\* asyncio.gather(forecast_task, warnings_task, return_exceptions=True)
\* completes when both tasks have returned or raised.
GatherDone(f, w) == Terminal(f) /\ Terminal(w)

\* One element of gather's result list: the task's return value, or the
\* exception object it raised.
TaskResult(frame, value) ==
  [exception |-> frame.pc = "raised", msg |-> frame.exc, value |-> value]

\* SummaryToolOutcome with a gather that lacks return_exceptions=True: the
\* first exception reaches the tool's `except`.
SummaryToolOutcomePropagate(location, now, forecast_res, warnings_res) ==
  IF forecast_res.exception
  THEN ErrorPayload(<<"summary_failed", forecast_res.msg>>)
  ELSE IF warnings_res.exception
  THEN ErrorPayload(<<"summary_failed", warnings_res.msg>>)
  ELSE Returned(JsonDumps([location |-> location,
                           summary_generated_at |-> IsoFormat(now),
                           forecast_summary |-> forecast_res.value,
                           warnings_summary |-> warnings_res.value], 2))

\* SummaryToolOutcome with gather's two results unpacked in the wrong order.
SummaryToolOutcomeSwapped(location, now, forecast_res, warnings_res) ==
  LET forecast_data == IF warnings_res.exception
                       THEN [error |-> warnings_res.msg]
                       ELSE warnings_res.value
      warnings_data == IF forecast_res.exception
                       THEN [error |-> forecast_res.msg]
                       ELSE forecast_res.value
  IN  Returned(JsonDumps([location |-> location,
                          summary_generated_at |-> IsoFormat(now),
                          forecast_summary |-> forecast_data,
                          warnings_summary |-> warnings_data], 2))

\* get_weather_summary_tool after the gather: the isinstance checks, the
\* summary dict and its serialisation.
SummaryToolOutcome(location, now, forecast_res, warnings_res) ==
  LET forecast_data == IF forecast_res.exception
                       THEN [error |-> forecast_res.msg]
                       ELSE forecast_res.value
      warnings_data == IF warnings_res.exception
                       THEN [error |-> warnings_res.msg]
                       ELSE warnings_res.value
      summary == [location |-> location,
                  summary_generated_at |-> IsoFormat(now),
                  forecast_summary |-> forecast_data,
                  warnings_summary |-> warnings_data]
  IN  Returned(JsonDumps(summary, 2))

NewRequest(tool, location, days, pc, result) ==
  [tool |-> tool, location |-> location, days |-> days, pc |-> pc,
   result |-> result]

\* -------------------------------------------------------------------- state
\* A new call takes the first slot that holds none.
Free(r) == req[r].pc = "idle" /\ \A q \in Calls : q < r => req[q].pc # "idle"

Init ==
  /\ clock = HoursPerDay - 1
  /\ running = NoOne
  /\ req = [r \in Calls |-> NewRequest("none", "", 0, "idle", NoResult)]
  /\ fc = [r \in Calls |-> NoForecastFrame]
  /\ wn = [r \in Calls |-> NoWarningsFrame]

\* The wall clock advances.
Tick ==
  /\ clock < HoursPerDay + MaxPastMidnight
  /\ clock' = clock + 1
  /\ UNCHANGED <<running, req, fc, wn>>

\* ------------------------------------------------- get_weather_forecast_tool
ForecastToolCall(r, location, days) ==
  /\ running = NoOne
  /\ Free(r)
  /\ IF ~ValidLocation(location)
     THEN /\ req' = [req EXCEPT ![r] = NewRequest(ForecastTool, location, days,
                          "done", ErrorPayload("location_required"))]
          /\ UNCHANGED <<running, fc>>
     ELSE IF ~ValidDays(days)
     THEN /\ req' = [req EXCEPT ![r] = NewRequest(ForecastTool, location, days,
                          "done", ErrorPayload("days_out_of_range"))]
          /\ UNCHANGED <<running, fc>>
     ELSE /\ req' = [req EXCEPT ![r] = NewRequest(ForecastTool, location, days,
                          "await_forecast", NoResult)]
          /\ fc' = [fc EXCEPT ![r] = ForecastFrame(location, days, clock)]
          /\ running' = <<r, "forecast">>
  /\ UNCHANGED <<clock, wn>>

\* The forecast generator has returned or raised: its task is over, and a
\* get_weather_forecast_tool awaiting it returns its payload.
ForecastDone(r, frame) ==
  /\ fc' = [fc EXCEPT ![r] = frame]
  /\ running' = NoOne
  /\ req' = IF req[r].tool = ForecastTool
            THEN [req EXCEPT ![r].pc = "done",
                             ![r].result = ForecastToolOutcome(frame)]
            ELSE req

\* One iteration of `for i in range(days)`.
ForecastLoop(r) ==
  /\ running = <<r, "forecast">>
  /\ fc[r].pc = "loop"
  /\ fc[r].i < fc[r].days
  /\ LET i == fc[r].i
         date == clock + (HoursPerDay * i)
     IN  fc' = [fc EXCEPT ![r].i = i + 1,
                          ![r].sample_forecast.daily_forecast =
                              Append(@, DailyData(i, date))]
  /\ UNCHANGED <<clock, running, req, wn>>

\* The loop is over: logger.info and `return sample_forecast`.
ForecastReturn(r) ==
  /\ running = <<r, "forecast">>
  /\ fc[r].pc = "loop"
  /\ fc[r].i >= fc[r].days
  /\ ForecastDone(r, [fc[r] EXCEPT !.pc = "returned"])
  /\ UNCHANGED <<clock, wn>>

\* An exception inside the generator's `try`: logged and raised again; the
\* locals of the frame are gone.
ForecastRaise(r, msg) ==
  /\ running = <<r, "forecast">>
  /\ fc[r].pc = "loop"
  /\ ForecastDone(r, [ForecastFrame(fc[r].location, fc[r].days, fc[r].calledAt)
                        EXCEPT !.pc = "raised", !.exc = msg])
  /\ UNCHANGED <<clock, wn>>

\* ------------------------------------------------- get_weather_warnings_tool
WarningsToolCall(r, location) ==
  /\ running = NoOne
  /\ Free(r)
  /\ IF ~ValidLocation(location)
     THEN /\ req' = [req EXCEPT ![r] = NewRequest(WarningsTool, location, 0,
                          "done", ErrorPayload("location_required"))]
          /\ UNCHANGED <<running, wn>>
     ELSE /\ req' = [req EXCEPT ![r] = NewRequest(WarningsTool, location, 0,
                          "await_warnings", NoResult)]
          /\ wn' = [wn EXCEPT ![r] = WarningsFrame(location)]
          /\ running' = <<r, "warnings">>
  /\ UNCHANGED <<clock, fc>>

WarningsDone(r, frame) ==
  /\ wn' = [wn EXCEPT ![r] = frame]
  /\ running' = NoOne
  /\ req' = IF req[r].tool = WarningsTool
            THEN [req EXCEPT ![r].pc = "done",
                             ![r].result = WarningsToolOutcome(frame)]
            ELSE req

\* One datetime.now() of the dict literal.
WarningsRead(r) ==
  /\ running = <<r, "warnings">>
  /\ wn[r].pc = "build"
  /\ Len(wn[r].reads) < NumClockReads
  /\ wn' = [wn EXCEPT ![r].reads = Append(@, clock)]
  /\ UNCHANGED <<clock, running, req, fc>>

\* The dict is built: logger.info and `return sample_warnings`.
WarningsReturn(r) ==
  /\ running = <<r, "warnings">>
  /\ wn[r].pc = "build"
  /\ Len(wn[r].reads) = NumClockReads
  /\ WarningsDone(r, [wn[r] EXCEPT !.pc = "returned",
            !.sample_warnings = SampleWarnings(wn[r].location, wn[r].reads)])
  /\ UNCHANGED <<clock, fc>>

WarningsRaise(r, msg) ==
  /\ running = <<r, "warnings">>
  /\ wn[r].pc = "build"
  /\ WarningsDone(r, [WarningsFrame(wn[r].location)
                        EXCEPT !.pc = "raised", !.exc = msg])
  /\ UNCHANGED <<clock, fc>>

\* -------------------------------------------------- get_weather_summary_tool
\* Validation, the two coroutine objects, and the await of gather, which
\* schedules both as tasks and suspends the tool.
SummaryToolCall(r, location) ==
  /\ running = NoOne
  /\ Free(r)
  /\ IF ~ValidLocation(location)
     THEN /\ req' = [req EXCEPT ![r] = NewRequest(SummaryTool, location, 0,
                          "done", ErrorPayload("location_required"))]
          /\ UNCHANGED <<fc, wn>>
     ELSE /\ req' = [req EXCEPT ![r] = NewRequest(SummaryTool, location, 0,
                          "gather", NoResult)]
          /\ fc' = [fc EXCEPT ![r] = [ForecastFrame(location, SummaryDays, clock)
                                        EXCEPT !.pc = "scheduled"]]
          /\ wn' = [wn EXCEPT ![r] = [WarningsFrame(location)
                                        EXCEPT !.pc = "scheduled"]]
  /\ UNCHANGED <<clock, running>>

\* The event loop runs a scheduled task; which of the ready ones is its choice.
ForecastTaskStart(r) ==
  /\ running = NoOne
  /\ fc[r].pc = "scheduled"
  /\ fc' = [fc EXCEPT ![r].pc = "loop"]
  /\ running' = <<r, "forecast">>
  /\ UNCHANGED <<clock, req, wn>>

WarningsTaskStart(r) ==
  /\ running = NoOne
  /\ wn[r].pc = "scheduled"
  /\ wn' = [wn EXCEPT ![r].pc = "build"]
  /\ running' = <<r, "warnings">>
  /\ UNCHANGED <<clock, req, fc>>

\* The gather is done: the tool resumes, builds the summary and returns it.
SummaryResume(r) ==
  /\ running = NoOne
  /\ req[r].pc = "gather"
  /\ GatherDone(fc[r], wn[r])
  /\ req' = [req EXCEPT ![r].pc = "done",
                        ![r].result = SummaryToolOutcome(req[r].location, clock,
                            TaskResult(fc[r], fc[r].sample_forecast),
                            TaskResult(wn[r], wn[r].sample_warnings))]
  /\ UNCHANGED <<clock, running, fc, wn>>

Next ==
  \/ Tick
  \/ \E r \in Calls, location \in Locations, days \in 0..MaxDaysArg :
        ForecastToolCall(r, location, days)
  \/ \E r \in Calls, location \in Locations : WarningsToolCall(r, location)
  \/ \E r \in Calls, location \in Locations : SummaryToolCall(r, location)
  \/ \E r \in Calls : ForecastTaskStart(r)
  \/ \E r \in Calls : WarningsTaskStart(r)
  \/ \E r \in Calls : ForecastLoop(r)
  \/ \E r \in Calls : ForecastReturn(r)
  \/ \E r \in Calls, msg \in FaultMsgs : ForecastRaise(r, msg)
  \/ \E r \in Calls : WarningsRead(r)
  \/ \E r \in Calls : WarningsReturn(r)
  \/ \E r \in Calls, msg \in FaultMsgs : WarningsRaise(r, msg)
  \/ \E r \in Calls : SummaryResume(r)

Spec == Init /\ [][Next]_vars

\* ================================================================== claims
Done(r) == req[r].pc = "done"

IsError(payload) == "error" \in DOMAIN payload

\* Parses an isoformat text back to a datetime.
FromIsoFormat(x) == (x.day * HoursPerDay) + x.hour

\* A summary call with a non-empty location that has returned.
SummaryDone(r) ==
  /\ req[r].tool = SummaryTool
  /\ req[r].location # ""
  /\ Done(r)

\* C1: get_weather_summary_tool with a non-empty location never raises and
\* returns a summary record whose forecast_summary / warnings_summary is the
\* task's full record when the task succeeded and {"error": message of the
\* failure} when it failed, for every combination of the two outcomes.
C1_SummaryPartialFailure ==
  \A r \in Calls :
    SummaryDone(r) =>
      /\ req[r].result.kind = "return"
      /\ LET s == req[r].result.text.json
         IN  /\ DOMAIN s = {"location", "summary_generated_at",
                            "forecast_summary", "warnings_summary"}
             /\ s.location = req[r].location
             /\ fc[r].pc = "raised" => s.forecast_summary = [error |-> fc[r].exc]
             /\ fc[r].pc = "returned" =>
                  /\ s.forecast_summary = fc[r].sample_forecast
                  /\ Len(s.forecast_summary.daily_forecast) = 3
             /\ wn[r].pc = "raised" => s.warnings_summary = [error |-> wn[r].exc]
             /\ wn[r].pc = "returned" =>
                  /\ s.warnings_summary = wn[r].sample_warnings
                  /\ Len(s.warnings_summary.warnings) = 2

\* A summary returned after the forecast task failed and the warnings task
\* succeeded, next to one where both failed with different messages.
C1_Witness ==
  \E r, t \in Calls :
    /\ SummaryDone(r) /\ fc[r].pc = "raised" /\ wn[r].pc = "returned"
    /\ SummaryDone(t) /\ fc[t].pc = "raised" /\ wn[t].pc = "raised"
    /\ fc[t].exc # wn[t].exc

\* C2: every tool call that has ended has returned a text payload, a record
\* or {"error": message}; no call ends with an exception leaving the tool.
C2_NoExceptionCrossesTool ==
  \A r \in Calls :
    /\ req[r].result.kind # "raise"
    /\ Done(r) =>
         /\ req[r].result.kind = "return"
         /\ \/ IsError(req[r].result.text.json)
            \/ req[r].result.text.json.location = req[r].location

\* Each generator has raised inside a tool that awaits it directly.
C2_Witness ==
  \E r, t \in Calls :
    /\ req[r].tool = ForecastTool /\ Done(r) /\ fc[r].pc = "raised"
    /\ req[t].tool = WarningsTool /\ Done(t) /\ wn[t].pc = "raised"

\* C3: a generator is invoked only with a non-empty location, and the
\* forecast generator only with 1 <= days <= 7; a call with an empty
\* location, or a forecast call with days outside [1,7], ends with an error
\* payload and no generator invoked.
C3_ValidationBeforeGenerators ==
  \A r \in Calls :
    /\ fc[r].pc # "none" =>
         fc[r].location # "" /\ 1 <= fc[r].days /\ fc[r].days <= 7
    /\ wn[r].pc # "none" => wn[r].location # ""
    /\ ( /\ req[r].pc # "idle"
         /\ \/ req[r].location = ""
            \/ req[r].tool = ForecastTool /\ req[r].days \notin 1..7 )
       => /\ Done(r)
          /\ req[r].result.kind = "return"
          /\ IsError(req[r].result.text.json)
          /\ fc[r].pc = "none"
          /\ wn[r].pc = "none"

\* Day counts 0 and 8 have both been rejected.
C3_Witness ==
  \E r, t \in Calls :
    /\ req[r].tool = ForecastTool /\ req[r].location # "" /\ req[r].days = 0
    /\ req[t].tool = ForecastTool /\ req[t].location # "" /\ req[t].days = 8
    /\ Done(r) /\ Done(t)

\* C4: a returned forecast has exactly `days` entries and entry i is dated
\* today + i, today being the calendar date at which the call was made.
C4_EntryDatedFromCallDate ==
  \A r \in Calls :
    fc[r].pc = "returned" =>
      /\ Len(fc[r].sample_forecast.daily_forecast) = fc[r].days
      /\ \A i \in 0..(fc[r].days - 1) :
           fc[r].sample_forecast.daily_forecast[i + 1].date =
             StrfDate(fc[r].calledAt) + i

\* C5: the summary record exists only when both tasks of its gather have
\* returned or raised.
C5_SummaryAfterBothTerminal ==
  \A r \in Calls :
    ( /\ req[r].tool = SummaryTool
      /\ req[r].result.kind = "return"
      /\ ~IsError(req[r].result.text.json) )
    => Terminal(fc[r]) /\ Terminal(wn[r])

\* A summary is built, and another call's gather waits with exactly one of
\* its tasks over.
C5_Witness ==
  \E r, t \in Calls :
    /\ SummaryDone(r) /\ ~IsError(req[r].result.text.json)
    /\ req[t].pc = "gather" /\ Terminal(wn[t]) /\ ~Terminal(fc[t])

\* C6: get_weather_summary_tool invokes the forecast generator with days = 3,
\* and a successful forecast_summary has forecast_days = 3 and 3 entries,
\* whatever day counts other calls use.
C6_SummaryForecastIsThreeDays ==
  \A r \in Calls :
    req[r].tool = SummaryTool =>
      /\ fc[r].pc # "none" => fc[r].days = 3
      /\ (Done(r) /\ fc[r].pc = "returned") =>
           LET f == req[r].result.text.json.forecast_summary
           IN  f.forecast_days = 3 /\ Len(f.daily_forecast) = 3

\* A summary with a successful forecast next to a 7-day forecast call.
C6_Witness ==
  \E r, t \in Calls :
    /\ SummaryDone(r) /\ fc[r].pc = "returned"
    /\ req[t].tool = ForecastTool /\ req[t].days = 7 /\ fc[t].pc = "returned"

C8_TotalWarningsIsTwo ==
  \A r \in Calls :
    wn[r].pc = "returned" =>
      /\ wn[r].sample_warnings.total_warnings = Len(wn[r].sample_warnings.warnings)
      /\ wn[r].sample_warnings.total_warnings = 2

C8_Witness ==
  \E r \in Calls :
    /\ req[r].tool = WarningsTool /\ Done(r) /\ wn[r].pc = "returned"
    /\ req[r].result.text.json.total_warnings = 2

\* C9: in a returned warnings record each entry's valid_until is that
\* entry's issued_time plus 12 hours (heavy rain) or 6 hours (strong wind).
C9_ValidUntilFromIssuedTime ==
  \A r \in Calls :
    wn[r].pc = "returned" =>
      LET w == wn[r].sample_warnings.warnings
      IN  /\ w[1].valid_until = IsoFormat(FromIsoFormat(w[1].issued_time) + 12)
          /\ w[2].valid_until = IsoFormat(FromIsoFormat(w[2].issued_time) + 6)

\* The content of a forecast record that is not read from the clock.
ForecastContent(f) ==
  [location |-> f.location,
   forecast_days |-> f.forecast_days,
   current_weather |-> f.current_weather,
   daily_forecast |->
     [k \in 1..Len(f.daily_forecast) |->
        [high_temp |-> f.daily_forecast[k].high_temp,
         low_temp |-> f.daily_forecast[k].low_temp,
         condition |-> f.daily_forecast[k].condition,
         precipitation_chance |-> f.daily_forecast[k].precipitation_chance,
         humidity |-> f.daily_forecast[k].humidity,
         wind_speed |-> f.daily_forecast[k].wind_speed]]]

\* The content of a warnings record that is not read from the clock.
WarningsContent(w) ==
  [location |-> w.location,
   total_warnings |-> w.total_warnings,
   warnings |->
     [k \in 1..Len(w.warnings) |->
        [type |-> w.warnings[k].type,
         severity |-> w.warnings[k].severity,
         description |-> w.warnings[k].description,
         affected_areas |-> w.warnings[k].affected_areas]]]

\* A call of tool `tool` that ran its generator alone and returned its record.
AloneDone(t, tool, location) ==
  /\ req[t].tool = tool
  /\ req[t].location = location
  /\ Done(t)
  /\ req[t].result.kind = "return"
  /\ ~IsError(req[t].result.text.json)

\* The tasks of a summary, whatever order they ran in, leave in the summary
\* the clock-free content their generators produce when run alone with the
\* same arguments.
C10_SameContentAsAlone ==
  \A s \in Calls :
    SummaryDone(s) =>
      LET sum == req[s].result.text.json
      IN  /\ fc[s].pc = "returned" =>
               /\ "daily_forecast" \in DOMAIN sum.forecast_summary
               /\ \A t \in Calls :
                    (AloneDone(t, ForecastTool, req[s].location)
                       /\ req[t].days = fc[s].days)
                    => ForecastContent(sum.forecast_summary) =
                         ForecastContent(req[t].result.text.json)
          /\ wn[s].pc = "returned" =>
               /\ "warnings" \in DOMAIN sum.warnings_summary
               /\ \A t \in Calls :
                    AloneDone(t, WarningsTool, req[s].location)
                    => WarningsContent(sum.warnings_summary) =
                         WarningsContent(req[t].result.text.json)

\* A step of one generator leaves the frame of the other generator, of every
\* call, as it was.
C10_NoSharedWrites ==
  /\ (\E r \in Calls : running = <<r, "forecast">>) => wn' = wn
  /\ (\E r \in Calls : running = <<r, "warnings">>) => fc' = fc

====
